---- MODULE Spec2Model ----
(***************************************************************************)
(* A model of the multisig key-possession toolchain: cmd/gen,              *)
(* cmd/create-unsigned, cmd/sign and cmd/verify-signed, run one after the  *)
(* other over the files they exchange (xpubs.json, privkeys.json,          *)
(* unsigned-tx{i}.json, redeem.txt, the signed transaction hex).           *)
(*                                                                         *)
(* Hashes, encodings and signatures are modelled symbolically: a hash is   *)
(* an injective constructor over its preimage, an encoding is a tagged     *)
(* wrapper that only its own decoder opens, and a signature records the    *)
(* private key and the digest it was made over.                            *)
(***************************************************************************)
EXTENDS Integers, Sequences, FiniteSets, TLC

\* ------------------------------------------------------------------ bounds
MaxKeys == 3
MaxTxFiles == 2

\* ------------------------------------------------------- program constants
TxOutValue == 1000
VinValue == 1000
TxVersion == 1
OutPointIndex == 0
InputIndex == 0

\* The seeds randomSeed() may draw and the challenges a verifier may pick.
Seeds == {1}
Challenges == {1, 2}

\* ---------------------------------------------------------------- strings
\* A string is a sequence of one-character strings.
Digits == <<"0", "1", "2", "3", "4", "5", "6", "7", "8", "9">>

EmptyString == <<>>

RECURSIVE Itoa(_)
\* fmt.Sprintf("%d", i) for i >= 0
Itoa(i) ==
  IF i < 10 THEN <<Digits[i + 1]>>
  ELSE Itoa(i \div 10) \o <<Digits[(i % 10) + 1]>>

IsDigit(c) == \E d \in 1..10 : Digits[d] = c

DigitValue(c) == (CHOOSE d \in 1..10 : Digits[d] = c) - 1

RECURSIVE Split(_, _)
\* strings.Split(s, sep) for a one-character separator
Split(s, sep) ==
  IF \A k \in 1..Len(s) : s[k] # sep THEN <<s>>
  ELSE LET k == CHOOSE j \in 1..Len(s) :
                  s[j] = sep /\ \A h \in 1..(j - 1) : s[h] # sep
       IN <<SubSeq(s, 1, k - 1)>> \o Split(SubSeq(s, k + 1, Len(s)), sep)

RECURSIVE SkipSpace(_)
SkipSpace(s) == IF s # <<>> /\ s[1] = " " THEN SkipSpace(Tail(s)) ELSE s

RECURSIVE DigitPrefix(_)
DigitPrefix(s) ==
  IF s # <<>> /\ IsDigit(s[1]) THEN <<s[1]>> \o DigitPrefix(Tail(s)) ELSE <<>>

RECURSIVE Atoi(_, _)
Atoi(s, acc) ==
  IF s = <<>> THEN acc ELSE Atoi(Tail(s), acc * 10 + DigitValue(s[1]))

\* A uint32 child index i is kept as [hardened, n] with i = n + 2^31 when
\* hardened (hdkeychain.HardenedKeyStart = 2^31) and n < 2^31.
U32(n) == [hardened |-> FALSE, n |-> n]

RECURSIVE StripZeros(_)
StripZeros(tok) ==
  IF Len(tok) > 1 /\ tok[1] = "0" THEN StripZeros(Tail(tok)) ELSE tok

\* The value of a decimal token as a uint32, or the range error of
\* strconv.ParseUint. A ten-digit token is compared in two halves of five
\* digits: 2^31 = 21474 83648 and 2^32 = 42949 67296.
ParseUint32(tok) ==
  LET t == StripZeros(tok)
      a == Atoi(SubSeq(t, 1, Len(t) - 5), 0)
      b == Atoi(SubSeq(t, Len(t) - 4, Len(t)), 0)
  IN IF Len(t) <= 9 THEN [ok |-> TRUE, val |-> U32(Atoi(t, 0))]
     ELSE IF Len(t) > 10 \/ a > 42949 \/ (a = 42949 /\ b >= 67296)
          THEN [ok |-> FALSE, val |-> U32(0)]
     ELSE IF a > 21474 \/ (a = 21474 /\ b >= 83648)
          THEN [ok |-> TRUE,
                val |-> [hardened |-> TRUE,
                         n |-> (a - 21474) * 100000 + (b - 83648)]]
     ELSE [ok |-> TRUE, val |-> U32(a * 100000 + b)]

\* fmt.Sscanf(s, "%d", &i) with i a uint32: leading spaces are skipped, the
\* longest run of decimal digits is read, what follows it is left unread.
SscanfUint32(s) ==
  LET tok == DigitPrefix(SkipSpace(s))
  IN IF tok = <<>> THEN [ok |-> FALSE, val |-> U32(0)]
     ELSE ParseUint32(tok)

RECURSIVE ScanSegments(_, _)
ScanSegments(segs, out) ==
  IF segs = <<>> THEN [ok |-> TRUE, path |-> out]
  ELSE LET r == SscanfUint32(Head(segs))
       IN IF ~r.ok THEN [ok |-> FALSE, path |-> <<>>]
          ELSE ScanSegments(Tail(segs), Append(out, r.val))

parseDerivationPath(path) ==
  IF path = EmptyString THEN [ok |-> FALSE, path |-> <<>>]
  ELSE ScanSegments(Split(path, "/"), <<>>)

\* strings.ReplaceAll(s, old, new) for a one-character old
RECURSIVE ReplaceAll(_, _, _)
ReplaceAll(s, old, new) ==
  IF s = <<>> THEN <<>>
  ELSE (IF s[1] = old THEN new ELSE <<s[1]>>) \o ReplaceAll(Tail(s), old, new)

HasPrefix(s, prefix) ==
  Len(s) >= Len(prefix) /\ SubSeq(s, 1, Len(prefix)) = prefix

HasSuffix(s, suffix) ==
  Len(s) >= Len(suffix) /\ SubSeq(s, Len(s) - Len(suffix) + 1, Len(s)) = suffix

RECURSIVE TrimRight(_)
TrimRight(s) ==
  IF s # <<>> /\ s[Len(s)] = " " THEN TrimRight(SubSeq(s, 1, Len(s) - 1)) ELSE s

TrimSpace(s) == TrimRight(SkipSpace(s))

RECURSIVE AtoiOctal(_, _)
AtoiOctal(s, acc) ==
  IF s = <<>> THEN acc ELSE AtoiOctal(Tail(s), acc * 8 + DigitValue(s[1]))

\* big.Int.SetString(component, 0) followed by the range check of
\* accounts.ParseDerivationPath, for components written with decimal digits:
\* a leading "0" before further digits selects base 8. An octal token of
\* eleven digits is split at its first digit (8^10 = 2^30).
ParseComponent(component) ==
  LET t == StripZeros(component)
      rest == AtoiOctal(Tail(t), 0)
  IN IF component = <<>> \/ \E k \in 1..Len(component) : ~IsDigit(component[k])
     THEN [ok |-> FALSE, val |-> U32(0)]
     ELSE IF Len(component) = 1 \/ component[1] # "0" THEN ParseUint32(component)
     ELSE IF \E k \in 1..Len(t) : DigitValue(t[k]) >= 8
          THEN [ok |-> FALSE, val |-> U32(0)]
     ELSE IF Len(t) <= 10 THEN [ok |-> TRUE, val |-> U32(AtoiOctal(t, 0))]
     ELSE IF Len(t) > 11 \/ DigitValue(t[1]) > 3
          THEN [ok |-> FALSE, val |-> U32(0)]
     ELSE [ok |-> TRUE,
           val |-> [hardened |-> DigitValue(t[1]) >= 2,
                    n |-> (DigitValue(t[1]) % 2) * 1073741824 + rest]]

\* The loop of accounts.ParseDerivationPath over the components: a trailing
\* "'" marks a hardened component, whose value must stay below 2^31.
RECURSIVE ParseComponents(_, _)
ParseComponents(components, result) ==
  IF components = <<>> THEN [ok |-> TRUE, path |-> result]
  ELSE LET c == TrimSpace(Head(components))
           hard == HasSuffix(c, <<"'">>)
           body == IF hard THEN TrimSpace(SubSeq(c, 1, Len(c) - 1)) ELSE c
           r == ParseComponent(body)
       IN IF ~r.ok \/ (hard /\ r.val.hardened)
          THEN [ok |-> FALSE, path |-> <<>>]
          ELSE ParseComponents(Tail(components),
                 Append(result, [hardened |-> hard \/ r.val.hardened,
                                 n |-> r.val.n]))

\* accounts.DefaultRootDerivationPath: m/44'/60'/0'/0
DefaultRootDerivationPath ==
  <<[hardened |-> TRUE, n |-> 44], [hardened |-> TRUE, n |-> 60],
    [hardened |-> TRUE, n |-> 0], U32(0)>>

\* accounts.ParseDerivationPath(path) of go-ethereum
ParseDerivationPath(path) ==
  LET components == Split(path, "/")
      first == TrimSpace(components[1])
      rest == IF first = <<"m">> THEN Tail(components) ELSE components
      root == IF first = <<"m">> THEN <<>> ELSE DefaultRootDerivationPath
  IN IF first = <<>> \/ rest = <<>> THEN [ok |-> FALSE, path |-> <<>>]
     ELSE ParseComponents(rest, root)

\* accounts.DerivationPath.String(): "m" and then "/n" or "/n'" per component
RECURSIVE DerivationPathString(_)
DerivationPathString(path) ==
  IF path = <<>> THEN <<"m">>
  ELSE LET i == path[Len(path)]
       IN DerivationPathString(SubSeq(path, 1, Len(path) - 1))
            \o <<"/">> \o Itoa(i.n) \o (IF i.hardened THEN <<"'">> ELSE <<>>)

\* parsePath(pathTemplate, index) of cmd/gen
parsePath(pathTemplate, index) ==
  LET replaced == ReplaceAll(pathTemplate, "i", Itoa(index))
      path == IF ~HasPrefix(replaced, <<"m", "/">>) /\ ~HasPrefix(replaced, <<"m">>)
              THEN <<"m", "/">> \o replaced ELSE replaced
  IN ParseDerivationPath(path)

\* ------------------------------------------------------- bytes and codecs
EmptyBytes == [enc |-> "empty"]

Sha256(b) == [enc |-> "sha256", pre |-> b]

\* The empty string "", which is also the base64 and the hex of no bytes.
EmptyB64 == [enc |-> "str", empty |-> TRUE]

\* encoding/base64 StdEncoding.EncodeToString: the empty input gives "".
B64Encode(b) ==
  IF b = EmptyBytes THEN EmptyB64
  ELSE [enc |-> "b64", data |-> b]

B64Decode(s) ==
  IF s = EmptyB64 THEN [ok |-> TRUE, data |-> EmptyBytes]
  ELSE IF s.enc = "b64" THEN [ok |-> TRUE, data |-> s.data]
  ELSE [ok |-> FALSE, data |-> EmptyBytes]

\* encoding/hex EncodeToString and DecodeString
HexEncode(b) == IF b = EmptyBytes THEN EmptyB64 ELSE [enc |-> "hex", data |-> b]

HexDecode(s) ==
  IF s = EmptyB64 THEN [ok |-> TRUE, data |-> EmptyBytes]
  ELSE IF s.enc = "hex" THEN [ok |-> TRUE, data |-> s.data]
  ELSE [ok |-> FALSE, data |-> EmptyBytes]

\* wire.MsgTx.Serialize / Deserialize
Serialize(tx) == [enc |-> "wire", tx |-> tx]

Deserialize(b) ==
  IF b.enc = "wire" THEN [ok |-> TRUE, tx |-> b.tx]
  ELSE [ok |-> FALSE, tx |-> [version |-> TxVersion, txIn |-> <<>>,
                              txOut |-> <<>>, lockTime |-> 0]]

\* ------------------------------------------------------------------- keys
\* hdkeychain.NewMaster(seed): the root extended private key.
NewMaster(seed) == [kind |-> "xpriv", seed |-> seed, path |-> <<>>]

Neuter(k) == [kind |-> "xpub", seed |-> k.seed, path |-> k.path]

\* ExtendedKey.Derive(i): a hardened child cannot be derived from a public key.
Derive(k, i) ==
  IF k.kind = "xpub" /\ i.hardened THEN [ok |-> FALSE, key |-> k]
  ELSE [ok |-> TRUE, key |-> [k EXCEPT !.path = Append(k.path, i)]]

RECURSIVE DerivePath(_, _)
DerivePath(k, path) ==
  IF path = <<>> THEN [ok |-> TRUE, key |-> k]
  ELSE LET r == Derive(k, Head(path))
       IN IF ~r.ok THEN r ELSE DerivePath(r.key, Tail(path))

ECPrivKey(k) == [kind |-> "priv", seed |-> k.seed, path |-> k.path]

ECPubKey(k) == [kind |-> "pub", seed |-> k.seed, path |-> k.path]

PubOf(priv) == [kind |-> "pub", seed |-> priv.seed, path |-> priv.path]

\* PublicKey.SerializeCompressed() and btcutil.NewAddressPubKey(bytes, params)
SerializeCompressed(pub) == [enc |-> "compressed", key |-> pub]

NewAddressPubKey(b) ==
  IF b.enc = "compressed" THEN [ok |-> TRUE, key |-> b.key]
  ELSE [ok |-> FALSE, key |-> b]

NewWIF(priv) == [enc |-> "wif", key |-> priv]

DecodeWIF(s) ==
  IF s.enc = "wif" THEN [ok |-> TRUE, key |-> s.key]
  ELSE [ok |-> FALSE, key |-> [kind |-> "priv", seed |-> 0, path |-> <<>>]]

\* ---------------------------------------------------- scripts and addresses
\* MultiSigScript that puts the keys into the script in reverse order.
MultiSigScriptReversed(pubKeys, nRequired) ==
  IF Len(pubKeys) < nRequired THEN [ok |-> FALSE, script |-> EmptyBytes]
  ELSE [ok |-> TRUE,
        script |-> [enc |-> "multisig", m |-> nRequired,
                    keys |-> [k \in 1..Len(pubKeys) |->
                                pubKeys[Len(pubKeys) + 1 - k]]]]

\* txscript.MultiSigScript(pubkeys, nrequired)
MultiSigScript(pubKeys, nRequired) ==
  IF Len(pubKeys) < nRequired THEN [ok |-> FALSE, script |-> EmptyBytes]
  ELSE [ok |-> TRUE,
        script |-> [enc |-> "multisig", m |-> nRequired, keys |-> pubKeys]]

\* btcutil.NewAddressWitnessScriptHash(prog).EncodeAddress()
EncodeAddressP2WSH(prog) == [enc |-> "bech32", kind |-> "p2wsh", prog |-> prog]

P2WSHAddress(script) == EncodeAddressP2WSH(Sha256(script))

\* txscript.PayToAddrScript for a witness-script-hash address
PayToAddrScript(addr) == [enc |-> "pkscript", version |-> 0, prog |-> addr.prog]

\* ------------------------------------------------------------ transactions
\* wire.NewOutPoint(&txid, 0), wire.NewTxIn(outpoint, nil, nil),
\* wire.NewTxOut(value, pkScript), wire.NewMsgTx(wire.TxVersion)
NewTxIn(outpoint) ==
  [outpoint |-> outpoint, sigScript |-> EmptyBytes, witness |-> <<>>,
   sequence |-> "MaxTxInSequenceNum"]

NewTxOut(value, pkScript) == [value |-> value, pkScript |-> pkScript]

NewMsgTx(ins, outs) ==
  [version |-> TxVersion, txIn |-> ins, txOut |-> outs, lockTime |-> 0]

\* The length in bytes the -hex flag asks of a challenge.
ChallengeLen == 32

\* The challenge given as -hex: 64 hex digits standing for 32 bytes.
ChallengeHex(c) == HexEncode([enc |-> "challenge", c |-> c, len |-> ChallengeLen])

\* A -hex value of 62 hex digits: it decodes, to 31 bytes.
ShortChallengeHex ==
  HexEncode([enc |-> "challenge", c |-> 1, len |-> ChallengeLen - 1])

PREVOUT_PREFIX == [enc |-> "ascii", text |-> "txid random prefix"]

\* sha256.Sum256(append(PREVOUT_PREFIX, rawBytes...))
PrevoutHash(rawBytes) ==
  Sha256([enc |-> "concat", a |-> PREVOUT_PREFIX, b |-> rawBytes])

\* sha256.Sum256(sha256.Sum256(rawBytes)): the txid of the create-unsigned that
\* has no PREVOUT_PREFIX.
PrevoutHashDouble(rawBytes) == Sha256(Sha256(rawBytes))

\* BuildProofTx with a second output added.
BuildProofTxTwoOutputs(rawBytes, addr) ==
  NewMsgTx(<<NewTxIn([hash |-> PrevoutHash(rawBytes), index |-> OutPointIndex])>>,
           <<NewTxOut(TxOutValue, PayToAddrScript(addr)),
             NewTxOut(TxOutValue, PayToAddrScript(addr))>>)

\* The proof transaction of create-unsigned: one input spending the synthetic
\* outpoint, one output paying the dummy amount back to the address.
BuildProofTx(rawBytes, addr) ==
  NewMsgTx(<<NewTxIn([hash |-> PrevoutHash(rawBytes), index |-> OutPointIndex])>>,
           <<NewTxOut(TxOutValue, PayToAddrScript(addr))>>)

\* ------------------------------------------------------------------ state
VARIABLES
  genRun,         \* the last run of cmd/gen: status and what it printed
  xpubsFile,      \* xpubs.json: a sequence of public records
  privFile,       \* privkeys.json: a sequence of private records
  cuRun,          \* the last run of cmd/create-unsigned
  unsignedFiles,  \* unsigned-tx{i}.json, i = 0..n-1, as a sequence
  redeemFile,     \* redeem.txt
  signRun,        \* the last run of cmd/sign
  verifyRun,      \* the last run of cmd/verify-signed
  pathRun         \* the last call of parseDerivationPath: argument and result

vars == <<genRun, xpubsFile, privFile, cuRun, unsignedFiles, redeemFile,
          signRun, verifyRun, pathRun>>

NoFile == [exists |-> FALSE]

Init ==
  /\ genRun = [status |-> "none"]
  /\ xpubsFile = <<>>
  /\ privFile = <<>>
  /\ cuRun = [status |-> "none"]
  /\ unsignedFiles = <<>>
  /\ redeemFile = NoFile
  /\ signRun = [status |-> "none"]
  /\ verifyRun = [status |-> "none"]
  /\ pathRun = [status |-> "none"]

\* ------------------------------------------------- parseDerivationPath
MaxPathLen == 3

\* The characters of the path strings tried: two digits, the separator, a
\* letter and a space.
PathAlphabet == {"0", "1", "/", "x", " "}

PathInputs == UNION {[1..k -> PathAlphabet] : k \in 0..MaxPathLen}

\* One call parseDerivationPath(path), as run makes for the path of an
\* xpubs.json entry.
ParsePath(path) ==
  /\ pathRun' = [status |-> "done", path |-> path,
                 result |-> parseDerivationPath(path)]
  /\ UNCHANGED <<genRun, xpubsFile, privFile, cuRun, unsignedFiles, redeemFile,
                 signRun, verifyRun>>

NextPath == \E path \in PathInputs : ParsePath(path)

SpecPath == Init /\ [][NextPath]_vars

\* ---------------------------------------------------------------- cmd/gen
\* PathString that keeps only the last index.
PathStringLast(path) ==
  IF path = <<>> THEN EmptyString ELSE Itoa(path[Len(path)].n)

\* The path string deriveKeyData builds: the indices joined by "/".
RECURSIVE PathString(_)
PathString(path) ==
  IF path = <<>> THEN EmptyString
  ELSE IF Len(path) = 1 THEN Itoa(path[1].n)
  ELSE Itoa(path[1].n) \o <<"/">> \o PathString(Tail(path))

deriveKeyData(seed, path) ==
  LET master == NewMaster(seed)
      cur == DerivePath(master, path)
  IN IF ~cur.ok THEN [ok |-> FALSE]
     ELSE [ok |-> TRUE,
           pub |-> [Xpub |-> Neuter(master), Path |-> PathString(path)],
           priv |-> [Xpriv |-> master,
                     PrivKeyWIF |-> NewWIF(ECPrivKey(cur.key)),
                     Path |-> PathString(path)],
           addrPubKey |->
             NewAddressPubKey(SerializeCompressed(ECPubKey(cur.key))).key]

\* run(nRequired, nKeys) of cmd/gen with the seed randomSeed() drew.
GenRun(seed, nRequired, nKeys) ==
  LET kd == [i \in 1..nKeys |-> deriveKeyData(seed, <<U32(0), U32(i - 1)>>)]
      rs == MultiSigScript([i \in 1..nKeys |-> kd[i].addrPubKey], nRequired)
  IN IF \E i \in 1..nKeys : ~kd[i].ok THEN [status |-> "err_derive"]
     ELSE IF ~rs.ok THEN [status |-> "err_script"]
     ELSE [status |-> "ok",
           pubs |-> [i \in 1..nKeys |-> kd[i].pub],
           privs |-> [i \in 1..nKeys |-> kd[i].priv],
           address |-> P2WSHAddress(rs.script),
           script |-> rs.script]

\* main of cmd/gen: -n and -m, both checked before run.
Gen(seed, nKeys, threshold) ==
  /\ genRun.status = "none"
  /\ IF nKeys <= 0 \/ threshold <= 0 \/ threshold > nKeys
     THEN /\ genRun' = [status |-> "usage"]
          /\ UNCHANGED <<xpubsFile, privFile>>
     ELSE LET r == GenRun(seed, threshold, nKeys)
          IN IF r.status # "ok"
             THEN /\ genRun' = [status |-> r.status]
                  /\ UNCHANGED <<xpubsFile, privFile>>
             ELSE /\ genRun' = [status |-> "ok", address |-> r.address,
                                script |-> r.script, m |-> threshold,
                                n |-> nKeys]
                  /\ xpubsFile' = r.pubs
                  /\ privFile' = r.privs
  /\ UNCHANGED <<pathRun, cuRun, unsignedFiles, redeemFile, signRun, verifyRun>>

\* The default of the -path flag of cmd/gen.
DefaultPathTemplate ==
  <<"m", "/", "8", "4", "'", "/", "0", "'", "/", "0", "'", "/", "0", "/", "i">>

\* A -path value without the placeholder: every key gets the same path.
FixedPathTemplate == <<"m", "/", "0">>

PathTemplates == {DefaultPathTemplate, FixedPathTemplate}

\* deriveKeyData(seed, path) of the cmd/gen that takes a path template: the
\* xpubs.json entry carries the compressed public key in hex.
deriveKeyDataPubkey(seed, path) ==
  LET master == NewMaster(seed)
      cur == DerivePath(master, path)
      pathStr == DerivationPathString(path)
      compressedPubkey == SerializeCompressed(ECPubKey(cur.key))
      addrPubKey == NewAddressPubKey(compressedPubkey)
  IN IF ~cur.ok \/ ~addrPubKey.ok THEN [ok |-> FALSE]
     ELSE [ok |-> TRUE,
           pub |-> [Xpub |-> Neuter(master), Path |-> pathStr,
                    Pubkey |-> HexEncode(compressedPubkey)],
           priv |-> [Xpriv |-> master,
                     PrivKeyWIF |-> NewWIF(ECPrivKey(cur.key)),
                     Path |-> pathStr],
           addrPubKey |-> addrPubKey.key]

\* run(seed, nRequired, nKeys, pathTemplate) of that cmd/gen
GenPathRun(seed, nRequired, nKeys, pathTemplate) ==
  LET path == [i \in 1..nKeys |-> parsePath(pathTemplate, i - 1)]
      kd == [i \in 1..nKeys |-> deriveKeyDataPubkey(seed, path[i].path)]
      rs == MultiSigScript([i \in 1..nKeys |-> kd[i].addrPubKey], nRequired)
  IN IF \E i \in 1..nKeys : ~path[i].ok THEN [status |-> "err_path"]
     ELSE IF \E i \in 1..nKeys : ~kd[i].ok THEN [status |-> "err_derive"]
     ELSE IF ~rs.ok THEN [status |-> "err_script"]
     ELSE [status |-> "ok",
           pubs |-> [i \in 1..nKeys |-> kd[i].pub],
           privs |-> [i \in 1..nKeys |-> kd[i].priv],
           address |-> P2WSHAddress(rs.script),
           script |-> rs.script]

\* main of the cmd/gen that takes -path: -n and -m are checked before run.
GenPath(seed, nKeys, threshold, pathTemplate) ==
  /\ genRun.status = "none"
  /\ IF nKeys <= 0 \/ threshold <= 0 \/ threshold > nKeys
     THEN /\ genRun' = [status |-> "usage"]
          /\ UNCHANGED <<xpubsFile, privFile>>
     ELSE LET r == GenPathRun(seed, threshold, nKeys, pathTemplate)
          IN IF r.status # "ok"
             THEN /\ genRun' = [status |-> r.status]
                  /\ UNCHANGED <<xpubsFile, privFile>>
             ELSE /\ genRun' = [status |-> "ok", address |-> r.address,
                                script |-> r.script, m |-> threshold,
                                n |-> nKeys]
                  /\ xpubsFile' = r.pubs
                  /\ privFile' = r.privs
  /\ UNCHANGED <<pathRun, cuRun, unsignedFiles, redeemFile, signRun, verifyRun>>

\* ------------------------------------------------- cmd/create-unsigned
P2WPKHAddress == [enc |-> "bech32", kind |-> "p2wpkh", prog |-> Sha256(EmptyBytes)]

GarbageString == [enc |-> "garbage"]

\* The script with the same keys and another threshold.
AltScript(script) ==
  [script EXCEPT !.m = IF @ > 1 THEN @ - 1 ELSE @ + 1]

\* What a caller may pass as -address: the address gen printed, the address
\* of the script with another threshold, an address of another type, and a
\* string that is no address.
AddressInputs ==
  {P2WPKHAddress, GarbageString}
    \cup (IF genRun.status = "ok"
          THEN {genRun.address, P2WSHAddress(AltScript(genRun.script))}
          ELSE {})

\* What a caller may pass as -hex: a challenge of 32 bytes, hex of another
\* length, and a string that is no hex.
HexInputs ==
  {ChallengeHex(c) : c \in Challenges} \cup {ShortChallengeHex, GarbageString}

\* The loop of run over the xpubs.json entries: each public key is derived
\* from the entry's xpub along the entry's parsed path.
RECURSIVE DerivePubKeys(_, _)
DerivePubKeys(xpubs, out) ==
  IF xpubs = <<>> THEN [status |-> "ok", keys |-> out]
  ELSE LET x == Head(xpubs)
           path == parseDerivationPath(x.Path)
           ext == DerivePath(x.Xpub, path.path)
       IN IF x.Xpub.kind # "xpub" /\ x.Xpub.kind # "xpriv"
          THEN [status |-> "err_xpub", keys |-> <<>>]
          ELSE IF ~path.ok THEN [status |-> "err_path", keys |-> <<>>]
          ELSE IF ~ext.ok THEN [status |-> "err_derive", keys |-> <<>>]
          ELSE DerivePubKeys(Tail(xpubs), Append(out,
                 NewAddressPubKey(SerializeCompressed(ECPubKey(ext.key))).key))

\* createJson that leaves the path out of the record.
createJsonNoPath(path, txBytes, redeemScript) ==
  [Path |-> EmptyString,
   Tx |-> B64Encode(txBytes),
   VinValues |-> <<VinValue>>,
   ScriptSigs |-> <<B64Encode(redeemScript)>>]

\* createJson(path, txBytes, redeemScript): one unsigned-tx{i}.json
createJson(path, txBytes, redeemScript) ==
  [Path |-> path,
   Tx |-> B64Encode(txBytes),
   VinValues |-> <<VinValue>>,
   ScriptSigs |-> <<B64Encode(redeemScript)>>]

\* run(addressStr, hexStr, xpubPath, threshold) up to the serialized
\* transaction, shared by the variants that derive the keys from the xpubs.
CreateUnsignedCore(addressStr, hexStr, xpubs, threshold) ==
  LET pk == DerivePubKeys(xpubs, <<>>)
      rs == MultiSigScript(pk.keys, threshold)
      addr == P2WSHAddress(rs.script)
      raw == HexDecode(hexStr)
      tx == BuildProofTx(raw.data, addr)
  IN IF pk.status # "ok" THEN [status |-> pk.status]
     ELSE IF ~rs.ok THEN [status |-> "err_script"]
     ELSE IF addr # addressStr THEN [status |-> "err_address_mismatch"]
     ELSE IF ~raw.ok THEN [status |-> "err_hex"]
     ELSE [status |-> "ok", tx |-> tx, txBytes |-> Serialize(tx),
           redeemScript |-> rs.script, addr |-> addr]

\* What a run that fails leaves behind: its status, nothing printed.
CuFailed(variant, status, addressStr, hexStr, threshold) ==
  [status |-> status, variant |-> variant, printedTx |-> FALSE,
   address |-> addressStr, hex |-> hexStr, m |-> threshold]

CuDone(variant, r, addressStr, hexStr, threshold) ==
  [status |-> "ok", variant |-> variant, printedTx |-> TRUE,
   address |-> addressStr, hex |-> hexStr, m |-> threshold,
   tx |-> r.tx, redeemScript |-> r.redeemScript, derived |-> r.addr]

\* cmd/create-unsigned writing unsigned-tx{i}.json, one per xpubs.json entry.
CreateUnsignedJson(addressStr, hexStr, threshold) ==
  /\ cuRun.status = "none"
  /\ genRun.status # "none"
  /\ IF threshold <= 0
     THEN /\ cuRun' = CuFailed("json", "usage", addressStr, hexStr, threshold)
          /\ UNCHANGED unsignedFiles
     ELSE IF xpubsFile = <<>>
     THEN /\ cuRun' = CuFailed("json", "err_read", addressStr, hexStr, threshold)
          /\ UNCHANGED unsignedFiles
     ELSE LET r == CreateUnsignedCore(addressStr, hexStr, xpubsFile, threshold)
          IN IF r.status # "ok"
             THEN /\ cuRun' = CuFailed("json", r.status, addressStr, hexStr,
                                       threshold)
                  /\ UNCHANGED unsignedFiles
             ELSE /\ cuRun' = CuDone("json", r, addressStr, hexStr, threshold)
                  /\ unsignedFiles' =
                       [i \in 1..Len(xpubsFile) |->
                          createJson(xpubsFile[i].Path, r.txBytes, r.redeemScript)]
  /\ UNCHANGED <<pathRun, genRun, xpubsFile, privFile, redeemFile, signRun, verifyRun>>

\* cmd/create-unsigned writing redeem.txt (the redeem script in hex).
CreateUnsignedRedeem(addressStr, hexStr, threshold) ==
  /\ cuRun.status = "none"
  /\ genRun.status # "none"
  /\ IF threshold <= 0
     THEN /\ cuRun' = CuFailed("redeem", "usage", addressStr, hexStr, threshold)
          /\ UNCHANGED redeemFile
     ELSE IF xpubsFile = <<>>
     THEN /\ cuRun' = CuFailed("redeem", "err_read", addressStr, hexStr, threshold)
          /\ UNCHANGED redeemFile
     ELSE LET r == CreateUnsignedCore(addressStr, hexStr, xpubsFile, threshold)
          IN IF r.status # "ok"
             THEN /\ cuRun' = CuFailed("redeem", r.status, addressStr, hexStr,
                                       threshold)
                  /\ UNCHANGED redeemFile
             ELSE /\ cuRun' = CuDone("redeem", r, addressStr, hexStr, threshold)
                  /\ redeemFile' = [exists |-> TRUE,
                                    text |-> HexEncode(r.redeemScript)]
  /\ UNCHANGED <<pathRun, genRun, xpubsFile, privFile, unsignedFiles, signRun, verifyRun>>

\* run(addressStr, hexStr, xpubPath, threshold) of the cmd/create-unsigned
\* that takes -threshold and only prints the transaction: the txid is the
\* double SHA256 of the decoded -hex.
CreateUnsignedPrintCore(addressStr, hexStr, xpubs, threshold) ==
  LET pk == DerivePubKeys(xpubs, <<>>)
      rs == MultiSigScript(pk.keys, threshold)
      addr == P2WSHAddress(rs.script)
      raw == HexDecode(hexStr)
      tx == NewMsgTx(<<NewTxIn([hash |-> PrevoutHashDouble(raw.data),
                                index |-> OutPointIndex])>>,
                     <<NewTxOut(TxOutValue, PayToAddrScript(addr))>>)
  IN IF pk.status # "ok" THEN [status |-> pk.status]
     ELSE IF ~rs.ok THEN [status |-> "err_script"]
     ELSE IF addr # addressStr THEN [status |-> "err_address_mismatch"]
     ELSE IF ~raw.ok THEN [status |-> "err_hex"]
     ELSE [status |-> "ok", tx |-> tx, txBytes |-> Serialize(tx),
           redeemScript |-> rs.script, addr |-> addr]

\* The address of the script of gen's keys with threshold 0.
ZeroThresholdAddress == P2WSHAddress([genRun.script EXCEPT !.m = 0])

\* What a caller may pass as -address to that cmd/create-unsigned.
PrintAddressInputs ==
  AddressInputs \cup (IF genRun.status = "ok" THEN {ZeroThresholdAddress} ELSE {})

\* main of that cmd/create-unsigned: -threshold is passed to run unchecked.
CreateUnsignedPrint(addressStr, hexStr, threshold) ==
  /\ cuRun.status = "none"
  /\ genRun.status # "none"
  /\ IF xpubsFile = <<>>
     THEN cuRun' = CuFailed("print", "err_read", addressStr, hexStr, threshold)
     ELSE LET r == CreateUnsignedPrintCore(addressStr, hexStr, xpubsFile,
                                           threshold)
          IN IF r.status # "ok"
             THEN cuRun' = CuFailed("print", r.status, addressStr, hexStr,
                                    threshold)
             ELSE cuRun' = CuDone("print", r, addressStr, hexStr, threshold)
  /\ UNCHANGED <<pathRun, genRun, xpubsFile, privFile, unsignedFiles, redeemFile,
                 signRun, verifyRun>>

\* What stands for a flag that is not on the command line.
NoAddress == [enc |-> "absent"]

\* json.Unmarshal into XpubDerivation: a record without "pubkey" leaves the
\* field at "".
PubkeyField(x) == IF "Pubkey" \in DOMAIN x THEN x.Pubkey ELSE EmptyB64

\* The loop of run over the xpubs.json entries in the cmd/create-unsigned that
\* reads the public keys: each entry's pubkey is decoded from hex.
RECURSIVE DecodePubKeys(_, _)
DecodePubKeys(xpubs, out) ==
  IF xpubs = <<>> THEN [status |-> "ok", keys |-> out]
  ELSE LET pubkeyBytes == HexDecode(PubkeyField(Head(xpubs)))
           addrPubKey == NewAddressPubKey(pubkeyBytes.data)
       IN IF ~pubkeyBytes.ok THEN [status |-> "err_pubkey_hex", keys |-> <<>>]
          ELSE IF ~addrPubKey.ok THEN [status |-> "err_pubkey", keys |-> <<>>]
          ELSE DecodePubKeys(Tail(xpubs), Append(out, addrPubKey.key))

\* run(hexStr, xpubPath, threshold) of that cmd/create-unsigned up to the
\* serialized transaction: the address is the one of the script it built.
CreateUnsignedPubkeyCore(hexStr, xpubs, threshold) ==
  LET pk == DecodePubKeys(xpubs, <<>>)
      rs == MultiSigScript(pk.keys, threshold)
      addr == P2WSHAddress(rs.script)
      raw == HexDecode(hexStr)
      tx == BuildProofTx(raw.data, addr)
  IN IF pk.status # "ok" THEN [status |-> pk.status]
     ELSE IF ~rs.ok THEN [status |-> "err_script"]
     ELSE IF ~raw.ok THEN [status |-> "err_hex"]
     ELSE [status |-> "ok", tx |-> tx, txBytes |-> Serialize(tx),
           redeemScript |-> rs.script, addr |-> addr]

\* The cmd/create-unsigned that defines -hex, -xpubs and -m only: flag.Parse
\* ends the run on -address, before anything is read.
CreateUnsignedPubkey(addressArg, hexStr, threshold) ==
  /\ cuRun.status = "none"
  /\ genRun.status # "none"
  /\ IF addressArg # NoAddress
     THEN /\ cuRun' = CuFailed("pubkey", "err_flag_undefined", addressArg,
                               hexStr, threshold)
          /\ UNCHANGED unsignedFiles
     ELSE IF threshold <= 0
     THEN /\ cuRun' = CuFailed("pubkey", "usage", addressArg, hexStr, threshold)
          /\ UNCHANGED unsignedFiles
     ELSE IF xpubsFile = <<>>
     THEN /\ cuRun' = CuFailed("pubkey", "err_read", addressArg, hexStr,
                               threshold)
          /\ UNCHANGED unsignedFiles
     ELSE LET r == CreateUnsignedPubkeyCore(hexStr, xpubsFile, threshold)
          IN IF r.status # "ok"
             THEN /\ cuRun' = CuFailed("pubkey", r.status, addressArg, hexStr,
                                       threshold)
                  /\ UNCHANGED unsignedFiles
             ELSE /\ cuRun' = CuDone("pubkey", r, addressArg, hexStr, threshold)
                  /\ unsignedFiles' =
                       [i \in 1..Len(xpubsFile) |->
                          createJson(xpubsFile[i].Path, r.txBytes, r.redeemScript)]
  /\ UNCHANGED <<pathRun, genRun, xpubsFile, privFile, redeemFile, signRun, verifyRun>>

\* ------------------------------------------- addresses and signing digests
\* getScriptPubKeyFromAddress without the check of the address type.
getScriptPubKeyFromAddressAnyType(address) ==
  IF address.enc # "bech32" THEN [status |-> "err_decode"]
  ELSE [status |-> "ok", script |-> PayToAddrScript(address)]

\* getScriptPubKeyFromAddress(address), the same in cmd/sign and
\* cmd/verify-signed: the address must decode and be a P2WSH address.
getScriptPubKeyFromAddress(address) ==
  IF address.enc # "bech32" THEN [status |-> "err_decode"]
  ELSE IF address.kind # "p2wsh" THEN [status |-> "err_not_p2wsh"]
  ELSE [status |-> "ok", script |-> PayToAddrScript(address)]

\* CalcWitnessSigHash without the amount of the spent output.
CalcWitnessSigHashNoAmount(subScript, hashType, tx, idx, amt) ==
  [enc |-> "sighash",
   version |-> tx.version,
   prevouts |-> [k \in 1..Len(tx.txIn) |-> tx.txIn[k].outpoint],
   sequences |-> [k \in 1..Len(tx.txIn) |-> tx.txIn[k].sequence],
   input |-> idx,
   scriptCode |-> subScript,
   amount |-> 0,
   outputs |-> tx.txOut,
   lockTime |-> tx.lockTime,
   hashType |-> hashType]

\* The segwit v0 signing digest of input idx: it commits to the version, the
\* outpoints and sequences of the inputs, the script code, the amount of the
\* spent output, the outputs, the locktime and the hash type; not to the
\* witness and not to the signature script.
CalcWitnessSigHash(subScript, hashType, tx, idx, amt) ==
  [enc |-> "sighash",
   version |-> tx.version,
   prevouts |-> [k \in 1..Len(tx.txIn) |-> tx.txIn[k].outpoint],
   sequences |-> [k \in 1..Len(tx.txIn) |-> tx.txIn[k].sequence],
   input |-> idx,
   scriptCode |-> subScript,
   amount |-> amt,
   outputs |-> tx.txOut,
   lockTime |-> tx.lockTime,
   hashType |-> hashType]

\* txscript.RawTxInWitnessSignature(tx, sigHashes, idx, amt, subScript,
\* SigHashAll, key): the DER signature followed by the hash type byte.
RawTxInWitnessSignature(tx, idx, amt, subScript, hashType, key) ==
  [enc |-> "sig", key |-> key, form |-> "ok", hashType |-> hashType,
   digest |-> CalcWitnessSigHash(subScript, hashType, tx, idx, amt)]

\* --------------------------------------------------------------- cmd/sign
\* The loop of main over the -tx records that checks they agree and keeps
\* the transaction, the redeem script and the amount of the last one.
RECURSIVE CheckRecords(_, _, _, _)
CheckRecords(txJson, rawTxHex, redeemHex, amountSats) ==
  IF txJson = <<>>
  THEN [status |-> "ok", rawTxHex |-> rawTxHex, redeemHex |-> redeemHex,
        amountSats |-> amountSats]
  ELSE LET j == Head(txJson)
       IN IF rawTxHex # EmptyB64 /\ rawTxHex # j.Tx
          THEN [status |-> "err_tx_mismatch"]
          ELSE IF Len(j.ScriptSigs) # 1 THEN [status |-> "err_no_script_sigs"]
          ELSE IF redeemHex # EmptyB64 /\ redeemHex # j.ScriptSigs[1]
          THEN [status |-> "err_script_mismatch"]
          ELSE IF Len(j.VinValues) # 1 THEN [status |-> "err_no_vin"]
          ELSE IF amountSats # 0 /\ amountSats # j.VinValues[1]
          THEN [status |-> "err_amount_mismatch"]
          ELSE CheckRecords(Tail(txJson), j.Tx, j.ScriptSigs[1], j.VinValues[1])

\* The first entry of privkeys.json whose path is the record's path, or 0.
FindPriv(privEntries, path) ==
  IF \E k \in 1..Len(privEntries) : privEntries[k].Path = path
  THEN CHOOSE k \in 1..Len(privEntries) :
         /\ privEntries[k].Path = path
         /\ \A h \in 1..(k - 1) : privEntries[h].Path # path
  ELSE 0

\* The signing loop of main: the records are taken in the order given, and
\* a record whose path no private key has adds no signature.
RECURSIVE SignLoop(_, _, _, _, _, _)
SignLoop(txJson, privEntries, tx, amountSats, redeemScript, sigs) ==
  IF txJson = <<>> THEN [status |-> "ok", sigs |-> sigs]
  ELSE LET k == FindPriv(privEntries, Head(txJson).Path)
           wif == DecodeWIF(privEntries[k].PrivKeyWIF)
       IN IF k = 0
          THEN SignLoop(Tail(txJson), privEntries, tx, amountSats,
                        redeemScript, sigs)
          ELSE IF ~wif.ok THEN [status |-> "err_wif", sigs |-> sigs]
          ELSE IF Len(tx.txIn) = 0 THEN [status |-> "err_signing", sigs |-> sigs]
          ELSE SignLoop(Tail(txJson), privEntries, tx, amountSats, redeemScript,
                        Append(sigs, RawTxInWitnessSignature(tx, InputIndex,
                                       amountSats, redeemScript, "ALL", wif.key)))

\* BuildWitness without the leading empty element.
BuildWitnessNoDummy(nRecords, sigs, redeemScript) ==
  IF Len(sigs) < nRecords THEN [status |-> "panic_index_out_of_range"]
  ELSE [status |-> "ok",
        witness |-> SubSeq(sigs, 1, nRecords) \o <<redeemScript>>]

\* BuildWitness with the redeem script put before the signatures.
BuildWitnessScriptFirst(nRecords, sigs, redeemScript) ==
  IF Len(sigs) < nRecords THEN [status |-> "panic_index_out_of_range"]
  ELSE [status |-> "ok",
        witness |-> <<EmptyBytes, redeemScript>> \o SubSeq(sigs, 1, nRecords)]

\* The witness main builds: the empty element, sigs[0..len(txJson)-1], the
\* redeem script. Reading sigs[i] past the end of sigs is a run-time panic.
BuildWitness(nRecords, sigs, redeemScript) ==
  IF Len(sigs) < nRecords THEN [status |-> "panic_index_out_of_range"]
  ELSE [status |-> "ok",
        witness |-> <<EmptyBytes>> \o SubSeq(sigs, 1, nRecords)
                      \o <<redeemScript>>]

\* SetWitness that also sets the lock time.
SetWitnessAndLockTime(tx, witness) ==
  [tx EXCEPT !.txIn[1].witness = witness, !.lockTime = 1]

\* tx.TxIn[0].Witness = witness
SetWitness(tx, witness) == [tx EXCEPT !.txIn[1].witness = witness]

\* main of cmd/sign after flag parsing and reading the files.
SignCore(address, txJson, privEntries) ==
  LET chk == CheckRecords(txJson, EmptyB64, EmptyB64, 0)
      rawTx == B64Decode(chk.rawTxHex)
      des == Deserialize(rawTx.data)
      redeem == B64Decode(chk.redeemHex)
      spk == getScriptPubKeyFromAddress(address)
      loop == SignLoop(txJson, privEntries, des.tx, chk.amountSats,
                       redeem.data, <<>>)
      wit == BuildWitness(Len(txJson), loop.sigs, redeem.data)
      signed == SetWitness(des.tx, wit.witness)
  IN IF chk.status # "ok" THEN [status |-> chk.status]
     ELSE IF ~rawTx.ok THEN [status |-> "err_tx_base64"]
     ELSE IF ~des.ok THEN [status |-> "err_deserialize"]
     ELSE IF ~redeem.ok THEN [status |-> "err_redeem_base64"]
     ELSE IF spk.status # "ok" THEN [status |-> spk.status]
     ELSE IF loop.status # "ok" THEN [status |-> loop.status]
     ELSE IF wit.status # "ok" THEN [status |-> wit.status]
     ELSE IF Len(des.tx.txIn) = 0 THEN [status |-> "panic_index_out_of_range"]
     ELSE [status |-> "ok", tx |-> signed, amountSats |-> chk.amountSats,
           redeemScript |-> redeem.data, sigs |-> loop.sigs,
           txHex |-> HexEncode(Serialize(signed))]

\* A record of another proof session's signer: the transaction and script of
\* unsigned-tx0.json under a path privkeys.json does not hold.
UnknownPath == <<"9", "/", "9">>

ForeignRecords ==
  IF unsignedFiles = <<>> THEN {}
  ELSE {[unsignedFiles[1] EXCEPT !.Path = UnknownPath]}

\* unsigned-tx0.json edited by hand to carry the amount 0, the zero value of
\* main's amountSats.
ZeroAmountRecords ==
  IF unsignedFiles = <<>> THEN {}
  ELSE {[unsignedFiles[1] EXCEPT !.VinValues = <<0>>]}

RecordPool ==
  {unsignedFiles[i] : i \in 1..Len(unsignedFiles)} \cup ForeignRecords
    \cup ZeroAmountRecords

TxFileLists == UNION {[1..k -> RecordPool] : k \in 0..MaxTxFiles}

SignAddressInputs == AddressInputs

Sign(address, txJson) ==
  /\ signRun.status = "none"
  /\ cuRun.status = "ok"
  /\ privFile # <<>>
  /\ LET r == IF txJson = <<>> THEN [status |-> "usage"]
              ELSE SignCore(address, txJson, privFile)
     IN signRun' = r @@ [address |-> address, txJson |-> txJson]
  /\ UNCHANGED <<pathRun, genRun, xpubsFile, privFile, cuRun, unsignedFiles, redeemFile,
                 verifyRun>>

\* ------------------------------------------------------ script execution
\* A witness element read as a signature by OP_CHECKMULTISIG under the standard
\* verification flags: the hash type byte and the DER encoding are checked
\* before the signature is.
SigEncodingOk(sig) ==
  /\ sig.enc = "sig"
  /\ sig.form # "bad_der"
  /\ sig.hashType \in {"ALL", "NONE", "SINGLE"}

\* SigValid that only matches the signature's key to the public key.
SigValidKeyOnly(sig, pubKey, script, tx, idx, amt) ==
  PubOf(sig.key) = pubKey

SigValid(sig, pubKey, script, tx, idx, amt) ==
  /\ sig.form = "ok"
  /\ PubOf(sig.key) = pubKey
  /\ sig.digest = CalcWitnessSigHash(script, sig.hashType, tx, idx, amt)

\* The verification loop of OP_CHECKMULTISIG. sigs and keys are in the order
\* they are popped (last pushed first); numPubKeys counts the keys left plus
\* one. Gives "true", "false" or "err_encoding".
RECURSIVE MultiSigLoop(_, _, _, _, _, _, _, _, _, _)
MultiSigLoop(sigs, keys, numSignatures, numPubKeys, pubKeyIdx, signatureIdx, script, tx, idx, amt) ==
  IF numSignatures = 0 THEN "true"
  ELSE IF numSignatures > numPubKeys - 1 THEN "false"
  ELSE LET sig == sigs[signatureIdx]
           pubKey == keys[pubKeyIdx + 1]
       IN IF sig = EmptyBytes
          THEN MultiSigLoop(sigs, keys, numSignatures, numPubKeys - 1,
                            pubKeyIdx + 1, signatureIdx, script, tx, idx, amt)
          ELSE IF ~SigEncodingOk(sig) THEN "err_encoding"
          ELSE IF SigValid(sig, pubKey, script, tx, idx, amt)
          THEN MultiSigLoop(sigs, keys, numSignatures - 1, numPubKeys - 1,
                            pubKeyIdx + 1, signatureIdx + 1, script, tx, idx, amt)
          ELSE MultiSigLoop(sigs, keys, numSignatures, numPubKeys - 1,
                            pubKeyIdx + 1, signatureIdx, script, tx, idx, amt)

Reverse(q) == [k \in 1..Len(q) |-> q[Len(q) + 1 - k]]

\* The m-of-n script run on the witness stack (the witness without its last
\* element): m, the keys, n and OP_CHECKMULTISIG, then the clean-stack rule.
ExecMultiSig(script, stack, tx, idx, amt) ==
  LET m == script.m
      n == Len(script.keys)
      sigs == Reverse(SubSeq(stack, Len(stack) - m + 1, Len(stack)))
      dummy == stack[Len(stack) - m]
      res == MultiSigLoop(sigs, Reverse(script.keys), m, n + 1, 0, 1,
                          script, tx, idx, amt)
  IN IF m < 0 \/ m > n THEN "err_invalid_signature_count"
     ELSE IF Len(stack) < m + 1 THEN "err_invalid_stack_operation"
     ELSE IF dummy # EmptyBytes THEN "err_sig_null_dummy"
     ELSE IF res = "err_encoding" THEN "err_sig_encoding"
     ELSE IF res = "false" /\ \E k \in 1..Len(sigs) : sigs[k] # EmptyBytes
          THEN "err_null_fail"
     ELSE IF Len(stack) > m + 1 THEN "err_clean_stack"
     ELSE IF res = "false" THEN "err_eval_false"
     ELSE "ok"

\* txscript.NewEngine(scriptPubKey, tx, idx, StandardVerifyFlags, ...): the
\* input must exist and a witness program takes no signature script.
NewEngine(scriptPubKey, tx, idx) ==
  IF idx + 1 > Len(tx.txIn) THEN "err_invalid_index"
  ELSE IF tx.txIn[idx + 1].sigScript # EmptyBytes THEN "err_witness_malleated"
  ELSE "ok"

\* Execute without the comparison of the witness script's hash to the program.
ExecuteNoHashCheck(scriptPubKey, tx, idx, amt) ==
  LET witness == tx.txIn[idx + 1].witness
      witnessScript == witness[Len(witness)]
  IN IF witness = <<>> THEN "err_witness_program_empty"
     ELSE IF witnessScript.enc # "multisig" THEN "err_script_parse"
     ELSE ExecMultiSig(witnessScript, SubSeq(witness, 1, Len(witness) - 1),
                       tx, idx, amt)

\* vm.Execute() for a version 0 witness-script-hash program: the last witness
\* element must hash to the program, and is then run on the rest.
Execute(scriptPubKey, tx, idx, amt) ==
  LET witness == tx.txIn[idx + 1].witness
      witnessScript == witness[Len(witness)]
  IN IF witness = <<>> THEN "err_witness_program_empty"
     ELSE IF Sha256(witnessScript) # scriptPubKey.prog
          THEN "err_witness_program_mismatch"
     ELSE IF witnessScript.enc # "multisig" THEN "err_script_parse"
     ELSE ExecMultiSig(witnessScript, SubSeq(witness, 1, Len(witness) - 1),
                       tx, idx, amt)

\* ------------------------------------------------------ cmd/verify-signed
\* decodeTx(txHex)
decodeTx(txHex) ==
  LET raw == HexDecode(txHex)
      des == Deserialize(raw.data)
  IN IF ~raw.ok THEN [ok |-> FALSE] ELSE IF ~des.ok THEN [ok |-> FALSE]
     ELSE [ok |-> TRUE, tx |-> des.tx]

\* VerifyCore that reports success once the engine is created.
VerifyCoreNoExecute(txHex, address, amountSats) ==
  LET dec == decodeTx(txHex)
      spk == getScriptPubKeyFromAddress(address)
      eng == NewEngine(spk.script, dec.tx, InputIndex)
  IN IF amountSats <= 0 THEN [status |-> "usage", detail |-> "flags"]
     ELSE IF ~dec.ok THEN [status |-> "err_decode", detail |-> "decode"]
     ELSE IF Len(dec.tx.txIn) = 0
          THEN [status |-> "panic_index_out_of_range", detail |-> "TxIn[0]"]
     ELSE IF spk.status # "ok"
          THEN [status |-> "err_script_pubkey", detail |-> spk.status]
     ELSE IF eng # "ok" THEN [status |-> "err_engine", detail |-> eng]
     ELSE [status |-> "ok", detail |-> "success"]

\* main of cmd/verify-signed after flag parsing: the stage that ended the run
\* and, for script execution, the interpreter's error.
VerifyCore(txHex, address, amountSats) ==
  LET dec == decodeTx(txHex)
      spk == getScriptPubKeyFromAddress(address)
      eng == NewEngine(spk.script, dec.tx, InputIndex)
      exe == Execute(spk.script, dec.tx, InputIndex, amountSats)
  IN IF amountSats <= 0 THEN [status |-> "usage", detail |-> "flags"]
     ELSE IF ~dec.ok THEN [status |-> "err_decode", detail |-> "decode"]
     ELSE IF Len(dec.tx.txIn) = 0
          THEN [status |-> "panic_index_out_of_range", detail |-> "TxIn[0]"]
     ELSE IF spk.status # "ok"
          THEN [status |-> "err_script_pubkey", detail |-> spk.status]
     ELSE IF eng # "ok" THEN [status |-> "err_engine", detail |-> eng]
     ELSE IF exe # "ok" THEN [status |-> "err_execute", detail |-> exe]
     ELSE [status |-> "ok", detail |-> "success"]

\* What may reach verify-signed as -tx: the hex cmd/sign printed, that hex
\* with one signature of the witness changed, that hex with the trailing
\* witness script replaced, that transaction without its inputs, or a string
\* that is no transaction.
TamperKinds == {"bad_der", "bad_rs", "hash_none"}

TamperSig(tx, k, how) ==
  [tx EXCEPT !.txIn[1].witness[k] =
     IF how = "bad_der" THEN [@ EXCEPT !.form = "bad_der"]
     ELSE IF how = "bad_rs" THEN [@ EXCEPT !.form = "bad_rs"]
     ELSE [@ EXCEPT !.hashType = "NONE"]]

SwapScript(tx) ==
  LET w == tx.txIn[1].witness
  IN [tx EXCEPT !.txIn[1].witness[Len(w)] = AltScript(w[Len(w)])]

SigPositions(tx) ==
  {k \in 1..Len(tx.txIn[1].witness) : tx.txIn[1].witness[k].enc = "sig"}

\* The transaction without its inputs; in the witness encoding (marker and
\* flag bytes, then an input count of 0) such a transaction decodes.
StripInputs(tx) == [tx EXCEPT !.txIn = <<>>]

TxInputs ==
  {[txHex |-> GarbageString, tamper |-> "garbage", at |-> 0]}
    \cup (IF signRun.status # "ok" THEN {}
          ELSE {[txHex |-> signRun.txHex, tamper |-> "none", at |-> 0],
                [txHex |-> HexEncode(Serialize(StripInputs(signRun.tx))),
                 tamper |-> "no_inputs", at |-> 0]}
               \cup {[txHex |-> HexEncode(Serialize(TamperSig(signRun.tx, k, how))),
                      tamper |-> how, at |-> k] :
                       k \in SigPositions(signRun.tx), how \in TamperKinds}
               \cup (IF signRun.redeemScript.enc # "multisig" THEN {}
                     ELSE {[txHex |-> HexEncode(Serialize(SwapScript(signRun.tx))),
                            tamper |-> "script", at |-> 0]}))

AmountInputs == {0, VinValue - 1, VinValue}

\* main of cmd/verify-signed: flags -tx, -address and -amount, then the
\* decoding, the address, the engine and the script execution.
VerifySigned(inp, address, amountSats) ==
  /\ verifyRun.status = "none"
  /\ signRun.status # "none"
  /\ verifyRun' = VerifyCore(inp.txHex, address, amountSats) @@
                  [txHex |-> inp.txHex, tamper |-> inp.tamper, at |-> inp.at,
                   address |-> address, amountSats |-> amountSats,
                   hexGiven |-> FALSE]
  /\ UNCHANGED <<pathRun, genRun, xpubsFile, privFile, cuRun, unsignedFiles, redeemFile,
                 signRun>>

\* cmd/verify-signed run as the README's step 4 runs it, with the challenge
\* as -hex: main defines no such flag, and flag.Parse ends the run on it.
VerifySignedHex(address, amountSats, hexStr) ==
  /\ verifyRun.status = "none"
  /\ signRun.status = "ok"
  /\ verifyRun' = [status |-> "err_flag_undefined", detail |-> "-hex",
                   txHex |-> signRun.txHex, tamper |-> "none", at |-> 0,
                   address |-> address, amountSats |-> amountSats,
                   hexGiven |-> TRUE, hex |-> hexStr]
  /\ UNCHANGED <<pathRun, genRun, xpubsFile, privFile, cuRun, unsignedFiles, redeemFile,
                 signRun>>

\* ---------------------------------------------------------- specification
\* Each command runs once in a session; the inputs of a command are drawn
\* when it can run.
Next ==
  \/ /\ genRun.status = "none"
     /\ \E seed \in Seeds, n \in 0..MaxKeys, m \in 0..MaxKeys : Gen(seed, n, m)
  \/ /\ genRun.status = "none"
     /\ \E seed \in Seeds, n \in 0..MaxKeys, m \in 0..MaxKeys,
           t \in PathTemplates : GenPath(seed, n, m, t)
  \/ /\ cuRun.status = "none"
     /\ \E a \in AddressInputs, h \in HexInputs, m \in 0..MaxKeys :
          CreateUnsignedJson(a, h, m)
  \/ /\ cuRun.status = "none"
     /\ \E a \in AddressInputs, h \in HexInputs, m \in 0..MaxKeys :
          CreateUnsignedRedeem(a, h, m)
  \/ /\ cuRun.status = "none"
     /\ \E a \in PrintAddressInputs, h \in HexInputs, m \in 0..MaxKeys :
          CreateUnsignedPrint(a, h, m)
  \/ /\ cuRun.status = "none"
     /\ \E a \in {NoAddress} \cup AddressInputs, h \in HexInputs,
           m \in 0..MaxKeys : CreateUnsignedPubkey(a, h, m)
  \/ /\ signRun.status = "none" /\ cuRun.status = "ok"
     /\ \E a \in SignAddressInputs, l \in TxFileLists : Sign(a, l)
  \/ /\ verifyRun.status = "none" /\ signRun.status # "none"
     /\ \E i \in TxInputs, a \in AddressInputs, amt \in AmountInputs :
          VerifySigned(i, a, amt)
  \/ /\ verifyRun.status = "none" /\ signRun.status = "ok"
     /\ \E h \in HexInputs : VerifySignedHex(signRun.address, VinValue, h)

Spec == Init /\ [][Next]_vars

\* ------------------------------------------------------------ properties
\* The witness cmd/sign put into its transaction, and what lies between its
\* first and its last element.
SignedWitness == signRun.tx.txIn[1].witness

Between(w) == SubSeq(w, 2, Len(w) - 1)

\* The position of the public key of signature sig among the script's keys.
KeyPos(script, sig) ==
  CHOOSE k \in 1..Len(script.keys) : script.keys[k] = PubOf(sig.key)

DistinctPaths(txJson) ==
  \A a, b \in 1..Len(txJson) : a # b => txJson[a].Path # txJson[b].Path

Unresolved(txJson) ==
  {k \in 1..Len(txJson) : FindPriv(privFile, txJson[k].Path) = 0}

\* The transaction verify-signed decoded from its -tx argument.
VerifiedTx == Deserialize(HexDecode(verifyRun.txHex).data).tx

\* C1 (as claimed): whatever the order of the -tx records, the signatures in
\* the witness cmd/sign writes follow the order of their public keys in the
\* threshold script.
C1_SignaturesInScriptOrder ==
  (/\ signRun.status = "ok"
   /\ DistinctPaths(signRun.txJson)
   /\ Len(signRun.txJson) = signRun.redeemScript.m) =>
    \A a, b \in 1..Len(signRun.sigs) :
      a < b => KeyPos(signRun.redeemScript, signRun.sigs[a])
                 < KeyPos(signRun.redeemScript, signRun.sigs[b])

\* C2 (as claimed): cmd/sign prints a signed transaction only when the
\* number of signatures in its witness is the threshold m of the script.
C2_SignatureCountIsThreshold ==
  signRun.status = "ok" =>
    /\ Len(Between(SignedWitness)) = signRun.redeemScript.m
    /\ Len(SignedWitness) = signRun.redeemScript.m + 2

\* C3 (as claimed): verify-signed run against a challenge other than the one
\* the transaction was built with ends with a challenge mismatch.
C3_ChallengeMismatchReported ==
  (verifyRun.status # "none" /\ verifyRun.hexGiven /\ verifyRun.hex # cuRun.hex)
    => verifyRun.status = "err_challenge_mismatch"

\* C4 (as claimed): when a record's path matches no entry of privkeys.json,
\* cmd/sign ends with an error that names the unresolved path.
C4_UnresolvedPathReported ==
  (/\ signRun.status # "none"
   /\ getScriptPubKeyFromAddress(signRun.address).status = "ok"
   /\ Unresolved(signRun.txJson) # {})
    => /\ signRun.status = "err_unresolved_signer"
       /\ \E k \in Unresolved(signRun.txJson) :
            signRun.path = signRun.txJson[k].Path

\* End-to-end scenario A up to the signed transaction: 2-of-3 keys from gen,
\* the proof transaction from create-unsigned for that address and m = 2
\* (the address given where the command takes one), cmd/sign run with the records
\* of the first two keys in script order and the address gen printed.
ScenarioASigned ==
  /\ genRun.status = "ok" /\ genRun.n = 3 /\ genRun.m = 2
  /\ cuRun.status = "ok" /\ cuRun.m = 2
  /\ cuRun.address \in {genRun.address, NoAddress}
  /\ signRun.status # "none"
  /\ signRun.address = genRun.address
  /\ Len(unsignedFiles) = 3
  /\ signRun.txJson = <<unsignedFiles[1], unsignedFiles[2]>>

ScenarioAVerified ==
  /\ ScenarioASigned
  /\ verifyRun.status # "none"
  /\ ~verifyRun.hexGiven
  /\ verifyRun.tamper = "none"
  /\ verifyRun.address = genRun.address
  /\ verifyRun.amountSats = 1000

\* C5: in scenario A, verify-signed run on the transaction cmd/sign printed,
\* with the same address and the amount 1000, reports success.
C5_ScenarioASucceeds ==
  ScenarioAVerified => (signRun.status = "ok" /\ verifyRun.status = "ok")

C5_Witness == ScenarioAVerified /\ verifyRun.status = "ok"

\* C6: every witness cmd/sign writes starts with the empty byte string, ends
\* with the redeem script of the unsigned records, and holds only signatures
\* in between.
C6_WitnessShape ==
  signRun.status = "ok" =>
    LET w == SignedWitness
        last == signRun.txJson[Len(signRun.txJson)]
    IN /\ Len(w) >= 2
       /\ w[1] = EmptyBytes
       /\ w[Len(w)] = B64Decode(last.ScriptSigs[1]).data
       /\ \A k \in 1..Len(Between(w)) : Between(w)[k].enc = "sig"
       /\ \A k \in 1..Len(signRun.txJson) :
            B64Decode(signRun.txJson[k].ScriptSigs[1]).data = w[Len(w)]

C6_Witness ==
  /\ signRun.status = "ok"
  /\ Len(SignedWitness) = 4
  /\ SignedWitness[1] = EmptyBytes
  /\ SignedWitness[4] = cuRun.redeemScript

\* The P2WSH address of the script that the xpubs.json entries and the -m of
\* the create-unsigned run give, and the address that run was to prove: its
\* -address, or the address gen printed when the command line had none.
CuDerived ==
  LET pk == IF cuRun.variant = "pubkey" THEN DecodePubKeys(xpubsFile, <<>>)
            ELSE DerivePubKeys(xpubsFile, <<>>)
      rs == MultiSigScript(pk.keys, cuRun.m)
  IN [ok |-> pk.status = "ok" /\ rs.ok, addr |-> P2WSHAddress(rs.script)]

CuExpected ==
  IF cuRun.address = NoAddress THEN genRun.address ELSE cuRun.address

\* C7 (as claimed): when the address derived from the xpub records and m
\* differs from the expected address, create-unsigned ends with an address
\* mismatch and emits nothing: no transaction printed, no redeem.txt and no
\* unsigned-tx*.json written.
C7_AddressMismatchReported ==
  (/\ cuRun.status # "none"
   /\ cuRun.m > 0
   /\ CuDerived.ok
   /\ CuDerived.addr # CuExpected) =>
    /\ cuRun.status = "err_address_mismatch"
    /\ ~cuRun.printedTx
    /\ unsignedFiles = <<>>
    /\ redeemFile = NoFile

\* C8: verify-signed reports success only when the last witness element is
\* the script the declared address commits to (its SHA256 is the address's
\* witness program); a witness ending in another script is rejected by the
\* script execution.
C8_SuccessCommitsToScript ==
  /\ verifyRun.status = "ok" =>
       LET w == VerifiedTx.txIn[1].witness
       IN /\ w # <<>>
          /\ verifyRun.address.enc = "bech32"
          /\ verifyRun.address.kind = "p2wsh"
          /\ Sha256(w[Len(w)]) = verifyRun.address.prog
  /\ (/\ verifyRun.status \in {"ok", "err_execute"}
      /\ VerifiedTx.txIn[1].witness # <<>>
      /\ Sha256(VerifiedTx.txIn[1].witness[Len(VerifiedTx.txIn[1].witness)])
           # verifyRun.address.prog) =>
       /\ verifyRun.status = "err_execute"
       /\ verifyRun.detail = "err_witness_program_mismatch"

C8_Witness ==
  /\ verifyRun.status = "ok"
  /\ genRun.m = 2 /\ genRun.n = 3
  /\ Len(VerifiedTx.txIn[1].witness) = 4
  /\ Sha256(VerifiedTx.txIn[1].witness[4]) = verifyRun.address.prog

\* C9: a signed transaction that verifies, with one signature of its witness
\* changed, fails verify-signed in the script execution step.
TamperedAfterValid ==
  /\ verifyRun.status # "none"
  /\ ~verifyRun.hexGiven
  /\ verifyRun.tamper \in TamperKinds
  /\ signRun.status = "ok"
  /\ VerifyCore(signRun.txHex, verifyRun.address, verifyRun.amountSats).status
       = "ok"

C9_TamperFailsInExecute ==
  TamperedAfterValid => verifyRun.status = "err_execute"

C9_Witness ==
  /\ TamperedAfterValid
  /\ genRun.n = 3 /\ genRun.m = 2 /\ signRun.redeemScript = genRun.script
  /\ verifyRun.status = "err_execute"

C11_OutpointBindsChallenge ==
  /\ cuRun.status = "ok" =>
       cuRun.tx.txIn[1].outpoint =
         [hash |-> Sha256([enc |-> "concat", a |-> PREVOUT_PREFIX,
                           b |-> HexDecode(cuRun.hex).data]),
          index |-> 0]
  /\ \A c1, c2 \in Challenges :
       PrevoutHash(HexDecode(ChallengeHex(c1)).data)
         = PrevoutHash(HexDecode(ChallengeHex(c2)).data) => c1 = c2

\* C12 (as claimed): create-unsigned builds a transaction only for a -hex
\* value that decodes to exactly 32 bytes.
C12_ChallengeIs32Bytes ==
  cuRun.status # "none" =>
    IF HexDecode(cuRun.hex).ok /\ HexDecode(cuRun.hex).data.enc = "challenge"
         /\ HexDecode(cuRun.hex).data.len = 32
    THEN TRUE
    ELSE /\ cuRun.status # "ok"
         /\ ~cuRun.printedTx
         /\ unsignedFiles = <<>>
         /\ redeemFile = NoFile

\* C13: every proof transaction create-unsigned builds has exactly one input,
\* with outpoint index 0, no signature script and no witness, and exactly one
\* output, of value 1000, paying to the P2WSH address of the threshold script.
C13_ProofTxShape ==
  cuRun.status = "ok" =>
    /\ Len(cuRun.tx.txIn) = 1
    /\ cuRun.tx.txIn[1].outpoint.index = 0
    /\ cuRun.tx.txIn[1].sigScript = EmptyBytes
    /\ cuRun.tx.txIn[1].witness = <<>>
    /\ Len(cuRun.tx.txOut) = 1
    /\ cuRun.tx.txOut[1].value = 1000
    /\ cuRun.tx.txOut[1].pkScript
         = [enc |-> "pkscript", version |-> 0,
            prog |-> Sha256(cuRun.redeemScript)]

C13_Witness ==
  /\ cuRun.status = "ok"
  /\ cuRun.variant = "json"
  /\ Len(cuRun.redeemScript.keys) = 3 /\ cuRun.redeemScript.m = 2
  /\ Len(cuRun.tx.txIn) = 1 /\ Len(cuRun.tx.txOut) = 1

\* Whether the xpubs.json gen wrote is the one create-unsigned's variant
\* reads its keys from: the pubkey field for the variant that decodes it, the
\* xpub and path of the gen that writes plain index paths for the others.
XpubsHavePubkey == xpubsFile # <<>> /\ "Pubkey" \in DOMAIN xpubsFile[1]

CuReadsGenOutput ==
  /\ genRun.status = "ok"
  /\ cuRun.status # "none"
  /\ (cuRun.variant = "pubkey") = XpubsHavePubkey

\* C14: the address gen prints is the address create-unsigned derives from
\* the xpubs.json gen wrote and gen's m: either way of reading the keys that
\* succeeds gives gen's script, and a create-unsigned run with gen's address
\* (where the command takes one) and m never ends in an address mismatch and
\* succeeds on the output of its gen.
C14_AddressAgreement ==
  /\ genRun.status = "ok" =>
       LET byPath == DerivePubKeys(xpubsFile, <<>>)
           byKey == DecodePubKeys(xpubsFile, <<>>)
       IN /\ 1 <= genRun.m /\ genRun.m <= genRun.n
          /\ byPath.status = "ok" =>
               P2WSHAddress(MultiSigScript(byPath.keys, genRun.m).script)
                 = genRun.address
          /\ byKey.status = "ok" =>
               P2WSHAddress(MultiSigScript(byKey.keys, genRun.m).script)
                 = genRun.address
          /\ byPath.status = "ok" \/ byKey.status = "ok"
  /\ (/\ genRun.status = "ok"
      /\ cuRun.status # "none"
      /\ cuRun.m = genRun.m
      /\ cuRun.address \in {genRun.address, NoAddress}) =>
       /\ cuRun.status # "err_address_mismatch"
       /\ cuRun.status = "ok" => P2WSHAddress(cuRun.redeemScript) = genRun.address
       /\ (/\ CuReadsGenOutput
           /\ (cuRun.address = NoAddress) = (cuRun.variant = "pubkey")
           /\ HexDecode(cuRun.hex).ok) => cuRun.status = "ok"

C14_Witness ==
  /\ genRun.status = "ok" /\ genRun.n = 3 /\ genRun.m = 2
  /\ cuRun.status = "ok"
  /\ cuRun.variant = "json"
  /\ cuRun.address = genRun.address
  /\ P2WSHAddress(cuRun.redeemScript) = genRun.address

\* C15 (as claimed): gen and create-unsigned produce a script, an address or
\* an output only when 1 <= m <= number of keys; any other m makes them fail.
C15_ThresholdEnforced ==
  /\ genRun.status = "ok" => (1 <= genRun.m /\ genRun.m <= genRun.n)
  /\ (cuRun.status # "none" /\ xpubsFile # <<>>
        /\ ~(1 <= cuRun.m /\ cuRun.m <= Len(xpubsFile))) =>
       /\ cuRun.status # "ok"
       /\ ~cuRun.printedTx
       /\ unsignedFiles = <<>>
       /\ redeemFile = NoFile

\* A path segment that is purely numeric: decimal digits and at least one.
NumericSegment(seg) ==
  seg # <<>> /\ \A k \in 1..Len(seg) : IsDigit(seg[k])

\* C16 (as claimed): parseDerivationPath returns an index list only when the
\* path is not empty and every "/"-separated segment is purely numeric; the
\* empty path, an empty segment and a non-numeric segment are errors.
C16_ParseRejectsNonNumeric ==
  (pathRun.status = "done" /\ pathRun.result.ok) =>
    /\ pathRun.path # <<>>
    /\ \A k \in 1..Len(Split(pathRun.path, "/")) :
         NumericSegment(Split(pathRun.path, "/")[k])

\* The variants of create-unsigned that write unsigned-tx{i}.json.
WritesRecords == cuRun.status # "none" /\ cuRun.variant \in {"json", "pubkey"}

EntryKey(x) ==
  IF cuRun.variant = "pubkey"
  THEN NewAddressPubKey(HexDecode(PubkeyField(x)).data).key
  ELSE ECPubKey(DerivePath(x.Xpub, parseDerivationPath(x.Path).path).key)

\* C18: the key sequence of the threshold script create-unsigned builds is
\* the sequence of xpubs.json entries in file order: as many keys as entries,
\* key i from entry i, equal keys kept.
C18_KeysInFileOrder ==
  cuRun.status = "ok" =>
    /\ Len(cuRun.redeemScript.keys) = Len(xpubsFile)
    /\ \A i \in 1..Len(xpubsFile) :
         cuRun.redeemScript.keys[i] = EntryKey(xpubsFile[i])

C18_Witness ==
  /\ cuRun.status = "ok"
  /\ Len(xpubsFile) = 3
  /\ Len(cuRun.redeemScript.keys) = 3
  /\ cuRun.redeemScript.keys[1] = cuRun.redeemScript.keys[2]

\* C19: verify-signed reports success exactly when every stage passed: the
\* flags, the decoding of the transaction, its first input, the address, the
\* creation of the engine and the script execution; a run that a stage ended
\* reports no success.
C19_AllOrNothing ==
  verifyRun.status # "none" =>
    LET dec == decodeTx(verifyRun.txHex)
        spk == getScriptPubKeyFromAddress(verifyRun.address)
    IN (verifyRun.status = "ok") <=>
         /\ ~verifyRun.hexGiven
         /\ verifyRun.amountSats > 0
         /\ dec.ok
         /\ Len(dec.tx.txIn) > 0
         /\ spk.status = "ok"
         /\ NewEngine(spk.script, dec.tx, 0) = "ok"
         /\ Execute(spk.script, dec.tx, 0, verifyRun.amountSats) = "ok"

C19_Witness ==
  /\ verifyRun.status = "ok"
  /\ verifyRun.tamper = "none"
  /\ Execute(getScriptPubKeyFromAddress(verifyRun.address).script,
             decodeTx(verifyRun.txHex).tx, 0, verifyRun.amountSats) = "ok"

\* C20: the transaction cmd/sign prints is the unsigned transaction of the
\* records with only the witness of its first input changed: version, input
\* outpoint, signature script, sequence, outputs and lock time are the same.
C20_OnlyWitnessChanges ==
  signRun.status = "ok" =>
    LET u == Deserialize(B64Decode(signRun.txJson[1].Tx).data).tx
        t == Deserialize(HexDecode(signRun.txHex).data).tx
    IN /\ t.version = u.version
       /\ t.lockTime = u.lockTime
       /\ t.txOut = u.txOut
       /\ Len(t.txIn) = Len(u.txIn)
       /\ t.txIn[1].outpoint = u.txIn[1].outpoint
       /\ t.txIn[1].sequence = u.txIn[1].sequence
       /\ t.txIn[1].sigScript = u.txIn[1].sigScript
       /\ [t EXCEPT !.txIn[1].witness = u.txIn[1].witness] = u
       /\ u = cuRun.tx

C20_Witness ==
  /\ signRun.status = "ok"
  /\ Len(signRun.sigs) = 2
  /\ signRun.tx.txIn[1].witness # cuRun.tx.txIn[1].witness
  /\ signRun.tx.txOut = cuRun.tx.txOut

\* Two records of the -tx list differ in transaction, script or amount.
RecordsDiffer(txJson) ==
  \E a, b \in 1..Len(txJson) :
    \/ txJson[a].Tx # txJson[b].Tx
    \/ txJson[a].ScriptSigs # txJson[b].ScriptSigs
    \/ txJson[a].VinValues # txJson[b].VinValues

C22_NoKeySignsTwice ==
  signRun.status = "ok"
    => \A a, b \in 1..Len(Between(SignedWitness)) :
         a # b => Between(SignedWitness)[a].key # Between(SignedWitness)[b].key

\* Claim C23: verify-signed given a decodable transaction with no inputs ends
\* with the "No inputs in transaction" error and never reads the witness of
\* input 0 of that transaction.
C23_NoInputsReported ==
  (/\ verifyRun.status \notin {"none", "usage", "err_flag_undefined"}
   /\ decodeTx(verifyRun.txHex).ok
   /\ Len(VerifiedTx.txIn) = 0)
    => verifyRun.status = "err_no_inputs"

\* Claim C24: gen derives n pairwise distinct derivation paths, one per key
\* index: the entries of xpubs.json, and those of privkeys.json, have
\* pairwise different paths, and entry i of both files has the same path.
C24_PathsPairwiseDistinct ==
  genRun.status = "ok"
    => /\ Len(xpubsFile) = genRun.n
       /\ Len(privFile) = genRun.n
       /\ \A i \in 1..genRun.n : xpubsFile[i].Path = privFile[i].Path
       /\ DistinctPaths(xpubsFile)
       /\ DistinctPaths(privFile)

\* The address decodes and is a witness-script-hash address.
IsWitnessScriptHash(address) ==
  address.enc = "bech32" /\ address.kind = "p2wsh"

\* Claim C25: cmd/sign and cmd/verify-signed accept only a P2WSH address:
\* with an address that does not decode or is of another type, sign ends
\* before its signing loop and verify-signed before it creates or runs the
\* script engine.
C25_OnlyP2WSHAccepted ==
  /\ (signRun.status \notin {"none", "usage"}
        /\ ~IsWitnessScriptHash(signRun.address))
       => signRun.status
            \notin {"ok", "err_wif", "err_signing", "panic_index_out_of_range"}
  /\ (verifyRun.status \notin {"none", "usage", "err_flag_undefined"}
        /\ ~IsWitnessScriptHash(verifyRun.address))
       => verifyRun.status \notin {"ok", "err_engine", "err_execute"}

\* A transaction cmd/sign signed for a P2WSH address is given to
\* verify-signed with a P2WPKH address, and the run ends at the address.
C25_Witness ==
  /\ signRun.status = "ok"
  /\ verifyRun.status = "err_script_pubkey"
  /\ verifyRun.detail = "err_not_p2wsh"
  /\ verifyRun.tamper = "none"
  /\ verifyRun.address = P2WPKHAddress

====
